---- MODULE Spec2Model ----
(***************************************************************************)
(* Model of the Trading 212 API client (src/api_client_212.py): the        *)
(* rate-limit state (class RateLimit), the credential codec and the        *)
(* request executor of class Client212 (adjust_to_rate_limits,             *)
(* raise_on_error, get, post, delete), run by several coroutines of one    *)
(* asyncio event loop against one shared client instance.                  *)
(*                                                                         *)
(* Strings of the program whose characters matter (keys, tokens, header    *)
(* values) are sequences of one-character strings.  A dict is a sequence   *)
(* of <<key, value>> pairs.  Python's None is the integer NoneVal for the  *)
(* integer fields and a record flag for the optional request body.         *)
(***************************************************************************)
EXTENDS Integers, Sequences, FiniteSets, TLC

(***************************************************************************)
(* State.                                                                  *)
(***************************************************************************)
VARIABLES
    key_id, key_secret, \* Client212.key_id, key_secret
    credentials,        \* Client212.credentials
    ratelimit,          \* Client212.ratelimit
    now,                \* time.time()
    running,            \* the coroutine blocking the event loop in
                        \* time.sleep, or NoCaller
    calls,              \* calls started so far
    pc,                 \* per caller: where it is in its call
    method,             \* per caller: "GET", "POST" or "DELETE"
    data,               \* per caller: the request body of its call
    request,            \* per caller: what its lambda `request` sends
    response,           \* per caller: the local `response`
    attempt,            \* per caller: the local `attempt`
    wakeAt,             \* per caller: when the time.sleep of its call ends
                        \* or ended; 0 when its call has not slept
    result,             \* per caller: how its call ended
    checks,             \* per caller: runs of ensure_can_call in its call
    dispatches,         \* per caller: requests its call has sent
    received,           \* per caller: the Response its call received last
    lastHeaders,        \* the headers of the response observed last
    throttled,          \* the headers observed last said remaining = 0
                        \* with reset in the future
    tool,               \* per caller: the tool of main.py that made its
                        \* call and the argument it validates, or NoTool
    admitted,           \* requests sent since the rate-limit state was
                        \* last replaced
    observes,           \* per caller: times its call replaced the
                        \* rate-limit state
    output              \* per caller: what the tool that made its call
                        \* returned or raised

(***************************************************************************)
(* Bounds of the model.                                                    *)
(***************************************************************************)
MaxCalls == 2      \* calls of get/post/delete started in one behaviour
MaxTime == 3       \* the clock stops ticking here (seconds)

(***************************************************************************)
(* Program constants.                                                      *)
(***************************************************************************)
NoneVal == -1             \* None, the default of RateLimit.__init__'s fields
MaxRetries == 3           \* "attempt < 3"
SleepBuffer == 1          \* "time.sleep(wait_time + 1)"
TooManyRequests == 429    \* "response.status_code == 429"

\* The coroutines that share the client: two, which is every interleaving
\* of one call with another.
Callers == { "c1", "c2" }
NoCaller == "nobody"

(***************************************************************************)
(* Credential codec: Client212.make_credentials.                           *)
(***************************************************************************)
\* Code points of the characters the keys are written with (str.encode:
\* every ASCII character is one byte, its code point).
Ord(ch) ==
    CASE ch = ":" -> 58
      [] ch = "d" -> 100
      [] ch = "i" -> 105
      [] ch = "k" -> 107
      [] ch = "s" -> 115

Utf8Encode(str) == [i \in 1..Len(str) |-> Ord(str[i])]

B64Alphabet ==
    << "A","B","C","D","E","F","G","H","I","J","K","L","M",
       "N","O","P","Q","R","S","T","U","V","W","X","Y","Z",
       "a","b","c","d","e","f","g","h","i","j","k","l","m",
       "n","o","p","q","r","s","t","u","v","w","x","y","z",
       "0","1","2","3","4","5","6","7","8","9","+","/" >>

B64Char(sextet) == B64Alphabet[sextet + 1]

\* base64.b64encode: three bytes make four characters; a last group of one
\* or two bytes is padded with "=".
RECURSIVE B64Encode(_)
B64Encode(bytes) ==
    IF Len(bytes) = 0 THEN << >>
    ELSE IF Len(bytes) = 1 THEN
        << B64Char(bytes[1] \div 4),
           B64Char((bytes[1] % 4) * 16),
           "=", "=" >>
    ELSE IF Len(bytes) = 2 THEN
        << B64Char(bytes[1] \div 4),
           B64Char((bytes[1] % 4) * 16 + bytes[2] \div 16),
           B64Char((bytes[2] % 16) * 4),
           "=" >>
    ELSE
        << B64Char(bytes[1] \div 4),
           B64Char((bytes[1] % 4) * 16 + bytes[2] \div 16),
           B64Char((bytes[2] % 16) * 4 + bytes[3] \div 64),
           B64Char(bytes[3] % 64) >>
        \o B64Encode(SubSeq(bytes, 4, Len(bytes)))

\* f"{key_id}:{key_secret}", utf-8 bytes, base64, as text.
\* A codec that leaves the separator out.
make_credentials_NoSeparator(id, secret) ==
    B64Encode(Utf8Encode(id \o secret))

make_credentials(id, secret) ==
    B64Encode(Utf8Encode(id \o << ":" >> \o secret))

\* The key pairs a client is constructed with.
KeyIds == { << "k" >>, << "i", "d" >> }
KeySecrets == { << "s" >> }

(***************************************************************************)
(* JSON: json.loads / response.json() and json.dumps(_, indent=2) on the   *)
(* texts and values of the model.  A parsed object is a sequence of        *)
(* <<key, value>> pairs.                                                   *)
(***************************************************************************)
JsonText == "{\"code\":\"InvalidTicker\"}"
PlainText == "Bad Gateway"
Texts == { JsonText, PlainText }

JsonValid(text) == text = JsonText

JsonLoads(text) ==
    CASE text = JsonText -> << << "code", "InvalidTicker" >> >>
      [] text = "{}" -> << >>
      [] text = "{\n  \"quantity\": 1.5,\n  \"ticker\": \"X\"\n}"
            -> << << "quantity", "1.5" >>, << "ticker", "X" >> >>
      [] text = "{\n  \"code\": \"InvalidTicker\"\n}"
            -> << << "code", "InvalidTicker" >> >>

\* json.dumps(_, indent=2) of a dict whose values are all JSON strings.
RECURSIVE DumpsMembers(_)
DumpsMembers(value) ==
    IF Len(value) = 0 THEN ""
    ELSE "  \"" \o value[1][1] \o "\": \"" \o value[1][2] \o "\""
         \o (IF Len(value) = 1 THEN "\n" ELSE ",\n")
         \o DumpsMembers(Tail(value))

JsonDumps(value) ==
    CASE value = << >> -> "{}"
      [] value = << << "code", "InvalidTicker" >> >>
            -> "{\n  \"code\": \"InvalidTicker\"\n}"
      [] value = << << "quantity", "1.5" >>, << "ticker", "X" >> >>
            -> "{\n  \"quantity\": 1.5,\n  \"ticker\": \"X\"\n}"
      [] OTHER -> "{\n" \o DumpsMembers(value) \o "}"

(***************************************************************************)
(* Request bodies: the optional dict `data` of post and raise_on_error.    *)
(***************************************************************************)
NoData == [isNone |-> TRUE, dict |-> << >>]
EmptyData == [isNone |-> FALSE, dict |-> << >>]
OrderData ==
    [isNone |-> FALSE,
     dict |-> << << "quantity", "1.5" >>, << "ticker", "X" >> >>]
PostBodies == { EmptyData, OrderData }

\* Python truth value of `data` in "if data:": None and {} are false.
DataTruthy(dat) == ~dat.isNone /\ Len(dat.dict) > 0

(***************************************************************************)
(* Rate-limit state: class RateLimit.                                      *)
(***************************************************************************)
HeaderNames ==
    { "x-ratelimit-limit", "x-ratelimit-period", "x-ratelimit-remaining",
      "x-ratelimit-reset", "x-ratelimit-used" }

\* Response header sets the server answers with: any subset of the five
\* quota headers, each value a decimal string.
NoHeaders == << >>
HeaderSets ==
    { NoHeaders,
      [h \in HeaderNames |->
          CASE h = "x-ratelimit-limit" -> << "5" >>
            [] h = "x-ratelimit-period" -> << "6", "0" >>
            [] h = "x-ratelimit-remaining" -> << "1" >>
            [] h = "x-ratelimit-reset" -> << "2" >>
            [] h = "x-ratelimit-used" -> << "4" >>],
      [h \in {"x-ratelimit-remaining", "x-ratelimit-reset"} |->
          IF h = "x-ratelimit-remaining" THEN << "0" >> ELSE << "0", "2" >>],
      [h \in {"x-ratelimit-limit", "x-ratelimit-used"} |->
          IF h = "x-ratelimit-limit" THEN << "7" >> ELSE << "2" >>] }

\* The value of lastHeaders while no response has been observed.
NotObserved == [none |-> << >>]

Digit(ch) ==
    CASE ch = "0" -> 0 [] ch = "1" -> 1 [] ch = "2" -> 2 [] ch = "3" -> 3
      [] ch = "4" -> 4 [] ch = "5" -> 5 [] ch = "6" -> 6 [] ch = "7" -> 7
      [] ch = "8" -> 8 [] ch = "9" -> 9

\* int(str) of a decimal string.
RECURSIVE ParseInt(_)
ParseInt(str) ==
    IF Len(str) = 0 THEN 0
    ELSE 10 * ParseInt(SubSeq(str, 1, Len(str) - 1)) + Digit(str[Len(str)])

\* int(headers.get(name, 0))
HeaderInt(headers, name) ==
    IF name \in DOMAIN headers THEN ParseInt(headers[name]) ELSE 0

\* RateLimit(): every field None.
RateLimitInit ==
    [limit |-> NoneVal, period |-> NoneVal, remaining |-> NoneVal,
     reset |-> NoneVal, used |-> NoneVal]

\* An observe that keeps the old value of a field whose header is absent.
from_headers_Merging(headers) ==
    [limit |-> IF "x-ratelimit-limit" \in DOMAIN headers
               THEN ParseInt(headers["x-ratelimit-limit"])
               ELSE ratelimit.limit,
     period |-> IF "x-ratelimit-period" \in DOMAIN headers
                THEN ParseInt(headers["x-ratelimit-period"])
                ELSE ratelimit.period,
     remaining |-> IF "x-ratelimit-remaining" \in DOMAIN headers
                   THEN ParseInt(headers["x-ratelimit-remaining"])
                   ELSE ratelimit.remaining,
     reset |-> IF "x-ratelimit-reset" \in DOMAIN headers
               THEN ParseInt(headers["x-ratelimit-reset"])
               ELSE ratelimit.reset,
     used |-> IF "x-ratelimit-used" \in DOMAIN headers
              THEN ParseInt(headers["x-ratelimit-used"])
              ELSE ratelimit.used]

from_headers(headers) ==
    [limit |-> HeaderInt(headers, "x-ratelimit-limit"),
     period |-> HeaderInt(headers, "x-ratelimit-period"),
     remaining |-> HeaderInt(headers, "x-ratelimit-remaining"),
     reset |-> HeaderInt(headers, "x-ratelimit-reset"),
     used |-> HeaderInt(headers, "x-ratelimit-used")]

\* Python truth value of an integer field: None and 0 are false.
Truthy(x) == x # NoneVal /\ x # 0

\* A check that sleeps whenever reset is ahead, whatever remains.
MustSleep_IgnoringRemaining(rl, t) ==
    /\ Truthy(rl.reset)
    /\ rl.reset - t > 0

\* ensure_can_call: the condition under which it calls time.sleep.
MustSleep(rl, t) ==
    /\ Truthy(rl.reset)
    /\ rl.remaining = 0
    /\ rl.reset - t > 0

\* A sleep of wait_time alone, without the buffer.
SleepUntil_NoBuffer(rl, t) == t + (rl.reset - t)

\* A sleep that takes reset for a delay: time.sleep(reset + 1).
SleepUntil_ResetAsDelay(rl, t) == t + rl.reset + SleepBuffer

\* The argument of time.sleep is wait_time + 1, so the sleep ends at
\* t + (reset - t) + 1.
SleepUntil(rl, t) == t + (rl.reset - t) + SleepBuffer

(***************************************************************************)
(* Executor helpers: Client212.make_headers, the loop test of              *)
(* adjust_to_rate_limits, raise_on_error and the return statements of      *)
(* get, post and delete.                                                   *)
(***************************************************************************)
Basic == << "B", "a", "s", "i", "c", " " >>

\* {'Authorization': f'Basic {self.credentials}'}
make_headers(creds) == [Authorization |-> Basic \o creds]

\* What `response` is bound to: nothing yet, an httpx Response, or the
\* coroutine object a call of request() returns when it is not awaited.
NoResponse == [kind |-> "none", status_code |-> 0, text |-> ""]
Coroutine == [kind |-> "coroutine", status_code |-> 0, text |-> ""]
HttpResponse(status, text) ==
    [kind |-> "Response", status_code |-> status, text |-> text]

Statuses == { 200, 204, 400, 404, TooManyRequests }

\* httpx Response.is_success
IsSuccess(resp) == resp.status_code >= 200 /\ resp.status_code <= 299

\* A loop that retries every failed response.
ShouldRetry_AnyFailure(resp, att) ==
    ~IsSuccess(resp) /\ att < MaxRetries

\* "while response.status_code == 429 and attempt < 3", for a Response.
ShouldRetry(resp, att) ==
    resp.status_code = TooManyRequests /\ att < MaxRetries

\* How a call of get, post or delete ends.  An absent text is << >>, a
\* present one << text >>.
NoResult ==
    [kind |-> "none", status |-> 0, method |-> "", json |-> << >>,
     raw |-> << >>, data |-> << >>, payload |-> << >>, success |-> FALSE]

\* An error that never parses the body and always carries the raw text.
ErrorOf_RawOnly(resp, meth, dat) ==
    [NoResult EXCEPT
        !.kind = "Exception",
        !.status = resp.status_code,
        !.method = meth,
        !.raw = << resp.text >>,
        !.data = IF DataTruthy(dat) THEN << JsonDumps(dat.dict) >> ELSE << >>]

\* The exception of raise_on_error (lines 100-110): the message names the
\* method and the status, then either "Response JSON: <dumps of the parsed
\* body>" or the raw response text, then "Request data: <dumps of data>"
\* under "if data:".
ErrorOf(resp, meth, dat) ==
    [NoResult EXCEPT
        !.kind = "Exception",
        !.status = resp.status_code,
        !.method = meth,
        !.json = IF JsonValid(resp.text)
                 THEN << JsonDumps(JsonLoads(resp.text)) >> ELSE << >>,
        !.raw = IF JsonValid(resp.text) THEN << >> ELSE << resp.text >>,
        !.data = IF DataTruthy(dat) THEN << JsonDumps(dat.dict) >> ELSE << >>]

\* A decode that answers an empty payload for a body it cannot decode.
JsonResult_EmptyOnFailure(resp) ==
    IF JsonValid(resp.text)
    THEN [NoResult EXCEPT !.kind = "payload", !.payload = JsonLoads(resp.text)]
    ELSE [NoResult EXCEPT !.kind = "payload"]

\* "return response.json()" of get and post.
JsonResult(resp) ==
    IF JsonValid(resp.text)
    THEN [NoResult EXCEPT !.kind = "payload", !.payload = JsonLoads(resp.text)]
    ELSE [NoResult EXCEPT !.kind = "JSONDecodeError"]

\* "return response.is_success" of delete.
DeleteResult(resp) ==
    [NoResult EXCEPT !.kind = "bool", !.success = IsSuccess(resp)]

\* Evaluating response.status_code on a coroutine object.
AttributeError == [NoResult EXCEPT !.kind = "AttributeError"]

\* An exception of the transport raised out of "await request()".
TransportError == [NoResult EXCEPT !.kind = "TransportError"]

\* Lines 119-120 (128-129, 137-138): what get, post or delete does with the
\* Response that adjust_to_rate_limits returned.
Complete(resp, meth, dat) ==
    IF ~IsSuccess(resp) THEN ErrorOf(resp, meth, dat)
    ELSE IF meth = "DELETE" THEN DeleteResult(resp)
    ELSE JsonResult(resp)

NoRequest == [method |-> "", headers |-> [Authorization |-> << >>],
              json |-> NoData]

(***************************************************************************)
(* The tools of src/main.py.                                               *)
(***************************************************************************)
\* The values of the enums Client212.TimeValidity and
\* Client212.DividendDestination.
TimeValidity == { "DAY", "GOOD_TILL_CANCEL" }
DividendDestination == { "REINVEST", "TO_ACCOUNT_CASH" }

\* The values the description of the tool create_pie documents.
DocumentedDividendDestinations == { "CASH", "REINVEST" }

\* The strings a tool is called with.
TimeValidityInputs == TimeValidity \cup { "WEEK" }
DividendDestinationInputs ==
    DividendDestination \cup DocumentedDividendDestinations

\* An enum lookup that takes any string for a member.
EnumCall_PassThrough(members, v) == [raises |-> FALSE, value |-> v]

\* Client212.TimeValidity(v), Client212.DividendDestination(v): the lookup
\* of a member by value, which raises ValueError when no member has it.
EnumCall(members, v) ==
    IF v \in members
    THEN [raises |-> FALSE, value |-> v]
    ELSE [raises |-> TRUE, value |-> ""]

\* The dict Client212.place_limit_order posts.
LimitOrderData(tv) ==
    [isNone |-> FALSE,
     dict |-> << << "limitPrice", "2.5" >>, << "quantity", "1.5" >>,
                 << "ticker", "X" >>, << "timeValidity", tv >> >>]

\* The dict Client212.create_pie posts, for a pie with no goal, no end
\* date and no instruments.
PieData(dd) ==
    [isNone |-> FALSE,
     dict |-> << << "name", "P" >>, << "goal", "null" >>,
                 << "endDate", "null" >>, << "dividendCashAction", dd >>,
                 << "instrumentShares", "{}" >> >>]

\* What a tool gives its caller: a string, or an exception.  `cause` is
\* the kind of the exception behind an "Error: ..." string or a raise.
NoOutput == [kind |-> "none", text |-> "", cause |-> ""]
Returned(text) == [kind |-> "str", text |-> text, cause |-> ""]
ErrorString(res) == [kind |-> "str", text |-> "Error: ", cause |-> res.kind]
Raised(res) == [kind |-> "raised", text |-> "", cause |-> res.kind]

\* The ValueError of an enum lookup.
ValueError == [NoResult EXCEPT !.kind = "ValueError"]

\* A render_response that answers an empty document when the call raised.
render_response_HidingErrors(res) ==
    IF res.kind = "payload" THEN Returned(JsonDumps(res.payload))
    ELSE Returned("{}")

\* render_response: the awaited call returned a payload, which is dumped,
\* or raised, which gives the string "Error: " and str(e).
render_response(res) ==
    IF res.kind = "payload" THEN Returned(JsonDumps(res.payload))
    ELSE ErrorString(res)

\* cancel_order and delete_pie: "await client.cancel_order(order_id)" and
\* then the return of the confirmation; an exception of the call leaves
\* the tool.
Confirmation(res, text) ==
    IF res.kind = "bool" THEN Returned(text) ELSE Raised(res)

RenderingTools == { "get_account_info", "place_limit_order", "create_pie" }

\* What the tool `t` does when the call it awaits has ended as `res`.
ToolReturn(t, res) ==
    CASE t.name \in RenderingTools -> render_response(res)
      [] t.name = "cancel_order" ->
            Confirmation(res, "Order with ID 1 cancelled.")
      [] t.name = "delete_pie" ->
            Confirmation(res, "Pie with ID 1 deleted.")
      [] OTHER -> NoOutput

\* A call made on the client directly, not by a tool of main.py.
NoTool == [name |-> "", arg |-> ""]

\* A wait that gives the event loop back, as "await asyncio.sleep" would.
EventLoopFree_YieldingSleep == TRUE

\* A client that lets one request at a time be in flight.
EventLoopFree_OneInFlight ==
    /\ running = NoCaller
    /\ \A d \in Callers : pc[d] # "await"

\* A coroutine blocked in time.sleep (line 32) blocks the thread of the
\* event loop.  The client holds no lock: a coroutine can enter
\* adjust_to_rate_limits whenever the event loop runs it.
EventLoopFree == running = NoCaller

(***************************************************************************)
(* Initial state.                                                          *)
(***************************************************************************)
vars ==
    << key_id, key_secret, credentials, ratelimit, now, running, calls, pc,
       method, data, request, response, attempt, wakeAt, result, checks,
       dispatches, received, lastHeaders, throttled, tool, admitted,
       observes, output >>

client == << key_id, key_secret, credentials >>
locals == << method, data, request, response, attempt >>
observed == << lastHeaders, throttled >>

\* Client212.__init__, at time 1.
Init ==
    /\ key_id \in KeyIds
    /\ key_secret \in KeySecrets
    /\ credentials = make_credentials(key_id, key_secret)
    /\ ratelimit = RateLimitInit
    /\ now = 1
    /\ running = NoCaller
    /\ calls = 0
    /\ pc = [c \in Callers |-> "idle"]
    /\ method = [c \in Callers |-> ""]
    /\ data = [c \in Callers |-> NoData]
    /\ request = [c \in Callers |-> NoRequest]
    /\ response = [c \in Callers |-> NoResponse]
    /\ attempt = [c \in Callers |-> 0]
    /\ wakeAt = [c \in Callers |-> 0]
    /\ result = [c \in Callers |-> NoResult]
    /\ checks = [c \in Callers |-> 0]
    /\ dispatches = [c \in Callers |-> 0]
    /\ received = [c \in Callers |-> NoResponse]
    /\ lastHeaders = NotObserved
    /\ throttled = FALSE
    /\ tool = [c \in Callers |-> NoTool]
    /\ admitted = 0
    /\ observes = [c \in Callers |-> 0]
    /\ output = [c \in Callers |-> NoOutput]

(***************************************************************************)
(* Actions.  A coroutine runs without interleaving from one await to the   *)
(* next, so each action is the code a coroutine runs between two points    *)
(* where it stops: the await of line 88 and the time.sleep of line 32.     *)
(* time.sleep blocks the thread of the event loop: while `running` is a    *)
(* caller, no other coroutine takes a step.                                *)
(***************************************************************************)
\* Lines 114-118 (123-127, 132-136) and 87-88: the url and the headers are
\* made, the lambda is built, adjust_to_rate_limits runs ensure_can_call
\* and then either sleeps or sends the request and awaits the response.
StartCall(c, meth, dat) ==
    /\ EventLoopFree
    /\ pc[c] \in {"idle", "done"}
    /\ calls < MaxCalls
    /\ calls' = calls + 1
    /\ method' = [method EXCEPT ![c] = meth]
    /\ data' = [data EXCEPT ![c] = dat]
    /\ request' = [request EXCEPT ![c] =
            [method |-> meth, headers |-> make_headers(credentials),
             json |-> dat]]
    /\ response' = [response EXCEPT ![c] = NoResponse]
    /\ attempt' = [attempt EXCEPT ![c] = 0]
    /\ result' = [result EXCEPT ![c] = NoResult]
    /\ received' = [received EXCEPT ![c] = NoResponse]
    /\ checks' = [checks EXCEPT ![c] = 1]
    /\ observes' = [observes EXCEPT ![c] = 0]
    /\ output' = [output EXCEPT ![c] = NoOutput]
    /\ IF MustSleep(ratelimit, now)
       THEN /\ pc' = [pc EXCEPT ![c] = "sleep_first"]
            /\ running' = c
            /\ wakeAt' = [wakeAt EXCEPT ![c] = SleepUntil(ratelimit, now)]
            /\ dispatches' = [dispatches EXCEPT ![c] = 0]
            /\ UNCHANGED admitted
       ELSE /\ pc' = [pc EXCEPT ![c] = "await"]
            /\ dispatches' = [dispatches EXCEPT ![c] = 1]
            /\ admitted' = admitted + 1
            /\ wakeAt' = [wakeAt EXCEPT ![c] = 0]
            /\ UNCHANGED running
    /\ UNCHANGED << client, ratelimit, now, observed >>

\* Client212.get
Get(c) ==
    /\ StartCall(c, "GET", NoData)
    /\ tool' = [tool EXCEPT ![c] = NoTool]

\* Client212.post
Post(c, dat) ==
    /\ StartCall(c, "POST", dat)
    /\ tool' = [tool EXCEPT ![c] = NoTool]

\* Client212.delete
Delete(c) ==
    /\ StartCall(c, "DELETE", NoData)
    /\ tool' = [tool EXCEPT ![c] = NoTool]

\* time.sleep returns, not before the time asked for has passed.
\* After the sleep of line 87, line 88 sends the request and awaits.
\* After the sleep of line 93, line 94 is "response = request()": the
\* lambda is called and not awaited.  client.get, client.post and
\* client.delete are coroutine functions, so the call only makes a
\* coroutine object and nothing is sent; the loop test of line 91 then
\* reads status_code on that object, which raises AttributeError.
WakeUp(c) ==
    /\ running = c
    /\ pc[c] \in {"sleep_first", "sleep_retry"}
    /\ now >= wakeAt[c]
    /\ running' = NoCaller
    /\ IF pc[c] = "sleep_first"
       THEN /\ pc' = [pc EXCEPT ![c] = "await"]
            /\ dispatches' = [dispatches EXCEPT ![c] = @ + 1]
            /\ admitted' = admitted + 1
            /\ UNCHANGED << response, result >>
       ELSE /\ response' = [response EXCEPT ![c] = Coroutine]
            /\ result' = [result EXCEPT ![c] = AttributeError]
            /\ pc' = [pc EXCEPT ![c] = "done"]
            /\ UNCHANGED << dispatches, admitted >>
    /\ UNCHANGED << client, ratelimit, now, calls, method, data, request,
                    attempt, wakeAt, checks, received, observed, tool,
                    observes >>
    /\ output' = [output EXCEPT ![c] =
            IF pc'[c] = "done" THEN ToolReturn(tool[c], result'[c]) ELSE @]

\* Lines 88-95 and the rest of get, post or delete: the awaited response
\* arrives; the rate-limit state is replaced by the one read from its
\* headers; attempt = 0; on 429 the loop body runs: attempt += 1,
\* ensure_can_call (which may sleep), "response = request()" and the loop
\* test on the coroutine object; otherwise the response goes through
\* raise_on_error and the return statement.
Receive(c, status, headers, text) ==
    /\ running = NoCaller
    /\ pc[c] = "await"
    /\ ratelimit' = from_headers(headers)
    /\ received' = [received EXCEPT ![c] = HttpResponse(status, text)]
    /\ lastHeaders' = headers
    /\ throttled' = (ratelimit'.remaining = 0 /\ ratelimit'.reset > now)
    /\ admitted' = 0
    /\ observes' = [observes EXCEPT ![c] = @ + 1]
    /\ IF ShouldRetry(HttpResponse(status, text), 0)
       THEN /\ attempt' = [attempt EXCEPT ![c] = 1]
            /\ checks' = [checks EXCEPT ![c] = @ + 1]
            /\ IF MustSleep(ratelimit', now)
               THEN /\ pc' = [pc EXCEPT ![c] = "sleep_retry"]
                    /\ running' = c
                    /\ wakeAt' = [wakeAt EXCEPT ![c] =
                            SleepUntil(ratelimit', now)]
                    /\ response' = [response EXCEPT ![c] =
                            HttpResponse(status, text)]
                    /\ UNCHANGED result
               ELSE /\ response' = [response EXCEPT ![c] = Coroutine]
                    /\ result' = [result EXCEPT ![c] = AttributeError]
                    /\ pc' = [pc EXCEPT ![c] = "done"]
                    /\ UNCHANGED << running, wakeAt >>
       ELSE /\ attempt' = [attempt EXCEPT ![c] = 0]
            /\ response' = [response EXCEPT ![c] = HttpResponse(status, text)]
            /\ result' = [result EXCEPT ![c] =
                    Complete(HttpResponse(status, text), method[c], data[c])]
            /\ pc' = [pc EXCEPT ![c] = "done"]
            /\ UNCHANGED << running, wakeAt, checks >>
    /\ UNCHANGED << client, now, calls, method, data, request, dispatches,
                    tool >>
    /\ output' = [output EXCEPT ![c] =
            IF pc'[c] = "done" THEN ToolReturn(tool[c], result'[c]) ELSE @]

\* A transport failure after which the client forgets the quota it knew.
TransportFailure_ForgettingState(c) ==
    /\ running = NoCaller
    /\ pc[c] = "await"
    /\ result' = [result EXCEPT ![c] = TransportError]
    /\ pc' = [pc EXCEPT ![c] = "done"]
    /\ output' = [output EXCEPT ![c] = ToolReturn(tool[c], TransportError)]
    /\ ratelimit' = RateLimitInit
    /\ UNCHANGED << client, now, running, calls, locals, wakeAt,
                    checks, dispatches, received, observed, tool, admitted,
                    observes >>

\* Line 88 raises: the transport could not complete the request.  The
\* exception leaves adjust_to_rate_limits and get, post or delete.
TransportFailure(c) ==
    /\ running = NoCaller
    /\ pc[c] = "await"
    /\ result' = [result EXCEPT ![c] = TransportError]
    /\ pc' = [pc EXCEPT ![c] = "done"]
    /\ output' = [output EXCEPT ![c] = ToolReturn(tool[c], TransportError)]
    /\ UNCHANGED << client, ratelimit, now, running, calls, locals, wakeAt,
                    checks, dispatches, received, observed, tool, admitted,
                    observes >>

\* A second passes.
Tick ==
    /\ now < MaxTime
    /\ now' = now + 1
    /\ UNCHANGED << client, ratelimit, running, calls, pc, locals, wakeAt,
                    result, checks, dispatches, received, observed, tool,
                    admitted, observes, output >>

\* A tool whose argument is not a value of its enum: the enum lookup
\* raises ValueError while the arguments of the client method are built,
\* before the client method is called and before render_response runs.
Rejected(c) ==
    /\ EventLoopFree
    /\ pc[c] \in {"idle", "done"}
    /\ calls < MaxCalls
    /\ calls' = calls + 1
    /\ method' = [method EXCEPT ![c] = ""]
    /\ data' = [data EXCEPT ![c] = NoData]
    /\ request' = [request EXCEPT ![c] = NoRequest]
    /\ response' = [response EXCEPT ![c] = NoResponse]
    /\ attempt' = [attempt EXCEPT ![c] = 0]
    /\ result' = [result EXCEPT ![c] = ValueError]
    /\ received' = [received EXCEPT ![c] = NoResponse]
    /\ checks' = [checks EXCEPT ![c] = 0]
    /\ dispatches' = [dispatches EXCEPT ![c] = 0]
    /\ observes' = [observes EXCEPT ![c] = 0]
    /\ wakeAt' = [wakeAt EXCEPT ![c] = 0]
    /\ pc' = [pc EXCEPT ![c] = "done"]
    /\ output' = [output EXCEPT ![c] = Raised(ValueError)]
    /\ UNCHANGED << client, ratelimit, now, running, observed, admitted >>

\* The tool get_account_info: Client212.get_account_info is a get.
get_account_info(c) ==
    /\ tool' = [tool EXCEPT ![c] = [name |-> "get_account_info", arg |-> ""]]
    /\ StartCall(c, "GET", NoData)

\* The tool place_limit_order with time_validity = tv, and
\* Client212.place_limit_order.
place_limit_order(c, tv) ==
    /\ tool' = [tool EXCEPT ![c] = [name |-> "place_limit_order", arg |-> tv]]
    /\ IF EnumCall(TimeValidity, tv).raises
       THEN Rejected(c)
       ELSE StartCall(c, "POST",
                      LimitOrderData(EnumCall(TimeValidity, tv).value))

\* The tool create_pie with dividend_destination = dd, and
\* Client212.create_pie.
create_pie(c, dd) ==
    /\ tool' = [tool EXCEPT ![c] = [name |-> "create_pie", arg |-> dd]]
    /\ IF EnumCall(DividendDestination, dd).raises
       THEN Rejected(c)
       ELSE StartCall(c, "POST",
                      PieData(EnumCall(DividendDestination, dd).value))

\* The tool cancel_order: Client212.cancel_order is a delete.
cancel_order(c) ==
    /\ tool' = [tool EXCEPT ![c] = [name |-> "cancel_order", arg |-> ""]]
    /\ StartCall(c, "DELETE", NoData)

\* The tool delete_pie: Client212.delete_pie is a delete.
delete_pie(c) ==
    /\ tool' = [tool EXCEPT ![c] = [name |-> "delete_pie", arg |-> ""]]
    /\ StartCall(c, "DELETE", NoData)

Next ==
    \/ \E c \in Callers : Get(c)
    \/ \E c \in Callers, dat \in PostBodies : Post(c, dat)
    \/ \E c \in Callers : Delete(c)
    \/ \E c \in Callers : WakeUp(c)
    \/ \E c \in Callers, status \in Statuses, headers \in HeaderSets,
          text \in Texts : Receive(c, status, headers, text)
    \/ \E c \in Callers : TransportFailure(c)
    \/ Tick

Spec == Init /\ [][Next]_vars

\* The client after a first call has completed and its coroutine is gone:
\* the response of that call carried a quota with requests remaining, and
\* line 89 made it the rate-limit state.
InitObserved ==
    /\ key_id \in KeyIds
    /\ key_secret \in KeySecrets
    /\ credentials = make_credentials(key_id, key_secret)
    /\ lastHeaders \in
            { hs \in HeaderSets : HeaderInt(hs, "x-ratelimit-remaining") > 0 }
    /\ ratelimit = from_headers(lastHeaders)
    /\ now = 1
    /\ running = NoCaller
    /\ calls = 0
    /\ pc = [c \in Callers |-> "idle"]
    /\ method = [c \in Callers |-> ""]
    /\ data = [c \in Callers |-> NoData]
    /\ request = [c \in Callers |-> NoRequest]
    /\ response = [c \in Callers |-> NoResponse]
    /\ attempt = [c \in Callers |-> 0]
    /\ wakeAt = [c \in Callers |-> 0]
    /\ result = [c \in Callers |-> NoResult]
    /\ checks = [c \in Callers |-> 0]
    /\ dispatches = [c \in Callers |-> 0]
    /\ received = [c \in Callers |-> NoResponse]
    /\ throttled = FALSE
    /\ tool = [c \in Callers |-> NoTool]
    /\ admitted = 0
    /\ observes = [c \in Callers |-> 0]
    /\ output = [c \in Callers |-> NoOutput]

SpecObserved == InitObserved /\ [][Next]_vars

\* The server of main.py: one client, made at import, whose calls are all
\* made by tools.
InitTools == Init /\ key_id = << "k" >>

\* The statuses the server answers a tool's request with: a success, a
\* failure and the throttling status.
ToolStatuses == { 200, 404, TooManyRequests }

\* The header sets it answers with: no quota headers, or an exhausted
\* quota.
ToolHeaderSets == { hs \in HeaderSets : "x-ratelimit-limit" \notin DOMAIN hs }

NextTools ==
    \/ \E c \in Callers : get_account_info(c)
    \/ \E c \in Callers, tv \in TimeValidityInputs : place_limit_order(c, tv)
    \/ \E c \in Callers, dd \in DividendDestinationInputs : create_pie(c, dd)
    \/ \E c \in Callers : cancel_order(c)
    \/ \E c \in Callers : delete_pie(c)
    \/ \E c \in Callers : WakeUp(c)
    \/ \E c \in Callers, status \in ToolStatuses, headers \in ToolHeaderSets,
          text \in Texts : Receive(c, status, headers, text)
    \/ \E c \in Callers : TransportFailure(c)
    \/ Tick

SpecTools == InitTools /\ [][NextTools]_vars

\* The attempt of c that is in flight completes: its response arrives
\* (a success, a failure or the throttling status, with no quota headers
\* or an exhausted quota), or the transport fails.

Completes(c) ==
    \/ \E status \in ToolStatuses, headers \in ToolHeaderSets,
          text \in Texts : Receive(c, status, headers, text)
    \/ TransportFailure(c)

NextLive ==
    \/ \E c \in Callers : Get(c)
    \/ \E c \in Callers : Post(c, OrderData)
    \/ \E c \in Callers : Delete(c)
    \/ \E c \in Callers : WakeUp(c)
    \/ \E c \in Callers : Completes(c)
    \/ Tick

\* The scheduling the code runs under: time passes, a time.sleep returns
\* once its time has come, and the transport completes every attempt.
FairSpec ==
    /\ InitTools
    /\ [][NextLive]_vars
    /\ WF_vars(Tick)
    /\ \A c \in Callers : WF_vars(WakeUp(c)) /\ WF_vars(Completes(c))

(***************************************************************************)
(* Properties.                                                             *)
(***************************************************************************)
Sleeping == { "sleep_first", "sleep_retry" }

\* The step sends a request of c's call: a request is sent exactly where
\* the caller starts to await its response.
DispatchStep(c) == pc[c] # "await" /\ pc'[c] = "await"

\* The step runs ensure_can_call for c: at the start of a call, or in the
\* loop body after a 429.
CheckStep(c) ==
    \/ pc[c] \in {"idle", "done"} /\ pc'[c] \notin {"idle", "done"}
    \/ checks'[c] = checks[c] + 1

\* C1 as stated: once the rate-limit state said remaining = 0 with reset
\* in the future, every request sent while that state lasts is sent at
\* time reset + 1 or later.
C1_DispatchNotBeforeResetPlusBuffer ==
    [][\A c \in Callers :
          DispatchStep(c) /\ throttled
              => now' >= ratelimit.reset + SleepBuffer]_vars

\* C1 as amended: once the rate-limit state said remaining = 0 with reset
\* in the future, no request is sent before time reset; a request sent
\* after the throttle wait is sent at time reset + 1 or later.
C1_DispatchNotBeforeReset ==
    [][\A c \in Callers :
          DispatchStep(c) /\ throttled
              => /\ now' >= ratelimit.reset
                 /\ pc[c] = "sleep_first"
                        => now' >= ratelimit.reset + SleepBuffer]_vars

\* A request was sent after a throttle wait, under a state that said
\* remaining = 0 with reset in the future.
C1_Witness ==
    \E c \in Callers :
        /\ pc[c] = "await"
        /\ dispatches[c] = 1
        /\ wakeAt[c] > 0
        /\ throttled
        /\ ratelimit.remaining = 0
        /\ now >= ratelimit.reset + SleepBuffer

\* C2: a run of ensure_can_call suspends its caller if and only if the
\* rate-limit state it reads has remaining = 0 and reset in the future.
C2_SuspendsIffExhausted ==
    [][\A c \in Callers :
          CheckStep(c)
              => ((pc'[c] \in Sleeping)
                    <=> (ratelimit'.remaining = 0 /\ ratelimit'.reset > now))
      ]_vars

\* One caller is suspended under remaining = 0 with reset ahead, while the
\* other was let through without a wait.
C2_Witness ==
    \E c, d \in Callers :
        /\ pc[c] \in Sleeping
        /\ ratelimit.remaining = 0
        /\ ratelimit.reset > now
        /\ pc[d] = "await"
        /\ wakeAt[d] = 0

C3_HeaderOf(field) ==
    CASE field = "limit" -> "x-ratelimit-limit"
      [] field = "period" -> "x-ratelimit-period"
      [] field = "remaining" -> "x-ratelimit-remaining"
      [] field = "reset" -> "x-ratelimit-reset"
      [] field = "used" -> "x-ratelimit-used"

\* C3: the rate-limit state is, field by field, what the headers of the
\* response observed last say, 0 for an absent header; before the first
\* response it is the state of construction.
C3_StateIsLastObserved ==
    IF lastHeaders = NotObserved
    THEN ratelimit = RateLimitInit
    ELSE \A field \in DOMAIN ratelimit :
            ratelimit[field] =
                IF C3_HeaderOf(field) \in DOMAIN lastHeaders
                THEN ParseInt(lastHeaders[C3_HeaderOf(field)])
                ELSE 0

\* Two responses were observed, the last one without the remaining, reset
\* and period headers, and those fields are 0.
C3_Witness ==
    /\ \A c \in Callers : received[c].kind = "Response"
    /\ DOMAIN lastHeaders = {"x-ratelimit-limit", "x-ratelimit-used"}
    /\ ratelimit.limit = 7
    /\ ratelimit.remaining = 0
    /\ ratelimit.reset = 0
    /\ ratelimit.period = 0

\* The call of c has ended.
Done(c) == pc[c] = "done"

\* The call of c has ended and the last response it received had a
\* non-success status.
FailedResponse(c) ==
    Done(c) /\ received[c].kind = "Response" /\ ~IsSuccess(received[c])

\* C4 as stated: a call answered 429 sends at most 4 requests and ends
\* with the error of raise_on_error carrying status 429.
C4_Throttled429EndsNormalized ==
    \A c \in Callers :
        FailedResponse(c) /\ received[c].status_code = TooManyRequests
            => /\ dispatches[c] <= 1 + MaxRetries
               /\ result[c].kind = "Exception"
               /\ result[c].status = TooManyRequests

\* C5: a call whose first attempt ends in a transport failure or in a
\* non-success status other than 429 has sent exactly one request, has
\* run no retry, and has ended with the error of that attempt.
C5_NoRetryOfOtherFailures ==
    \A c \in Callers :
        Done(c) =>
            /\ received[c].kind = "none"
                => /\ dispatches[c] = 1
                   /\ attempt[c] = 0
                   /\ checks[c] = 1
                   /\ result[c].kind = "TransportError"
            /\ FailedResponse(c) /\ received[c].status_code # TooManyRequests
                => /\ dispatches[c] = 1
                   /\ attempt[c] = 0
                   /\ checks[c] = 1
                   /\ result[c].kind = "Exception"
                   /\ result[c].status = received[c].status_code

\* A rejected POST of an order and a call that failed in the transport,
\* each with one request sent.
C5_Witness ==
    \E c, d \in Callers :
        /\ Done(c) /\ method[c] = "POST" /\ data[c] = OrderData
        /\ received[c].status_code = 400
        /\ dispatches[c] = 1
        /\ Done(d) /\ received[d].kind = "none"
        /\ result[d].kind = "TransportError"
        /\ dispatches[d] = 1

\* C6: the error of raise_on_error carries the parsed body when the body
\* of the response is valid JSON, and the raw text of the body when it is
\* not.
C6_ErrorCarriesParsedOrRaw ==
    \A c \in Callers :
        result[c].kind = "Exception" =>
            IF JsonValid(received[c].text)
            THEN /\ Len(result[c].json) = 1
                 /\ JsonLoads(result[c].json[1]) = JsonLoads(received[c].text)
            ELSE result[c].raw = << received[c].text >>

\* One error carries a parsed body and another one a raw text.
C6_Witness ==
    \E c, d \in Callers :
        /\ result[c].kind = "Exception"
        /\ received[c].text = JsonText
        /\ JsonLoads(result[c].json[1]) = << << "code", "InvalidTicker" >> >>
        /\ result[d].kind = "Exception"
        /\ result[d].raw = << PlainText >>

\* C7 as stated: the error that raise_on_error produced for a failed
\* response carries the status of that response and, when the call had a
\* request body, empty or not, that body.
C7_ErrorKeepsStatusAndBody ==
    \A c \in Callers :
        FailedResponse(c) /\ result[c].kind = "Exception" =>
            /\ result[c].status = received[c].status_code
            /\ ~data[c].isNone
                => /\ Len(result[c].data) = 1
                   /\ JsonLoads(result[c].data[1]) = data[c].dict

\* C8: a get or post that received a success status with a body that is
\* not valid JSON ends in an error, not in a payload.
C8_UndecodableSuccessIsError ==
    \A c \in Callers :
        /\ Done(c)
        /\ method[c] \in {"GET", "POST"}
        /\ received[c].kind = "Response"
        /\ IsSuccess(received[c])
        /\ ~JsonValid(received[c].text)
        => /\ result[c].kind = "JSONDecodeError"
           /\ result[c].payload = << >>

\* A get answered 200 with a body that is not JSON ended in the decode
\* error.
C8_Witness ==
    \E c \in Callers :
        /\ Done(c)
        /\ method[c] = "GET"
        /\ received[c] = HttpResponse(200, PlainText)
        /\ result[c].kind = "JSONDecodeError"

\* C9 as stated: a delete ends with true on every success status and with
\* the error of raise_on_error carrying the status on every other one.
C9_DeleteTrueOrNormalizedError ==
    \A c \in Callers :
        Done(c) /\ method[c] = "DELETE" /\ received[c].kind = "Response"
            => IF IsSuccess(received[c])
               THEN result[c].kind = "bool" /\ result[c].success
               ELSE /\ result[c].kind = "Exception"
                    /\ result[c].status = received[c].status_code

C10_B64Index(ch) == CHOOSE i \in 0..63 : B64Alphabet[i + 1] = ch

\* The bytes a base64 text stands for.
RECURSIVE C10_B64Decode(_)
C10_B64Decode(chars) ==
    IF Len(chars) = 0 THEN << >>
    ELSE
        LET i1 == C10_B64Index(chars[1])
            i2 == C10_B64Index(chars[2])
            rest == C10_B64Decode(SubSeq(chars, 5, Len(chars)))
        IN  IF chars[3] = "=" THEN << i1 * 4 + i2 \div 16 >> \o rest
            ELSE LET i3 == C10_B64Index(chars[3])
                 IN  IF chars[4] = "="
                     THEN << i1 * 4 + i2 \div 16,
                             (i2 % 16) * 16 + i3 \div 4 >> \o rest
                     ELSE << i1 * 4 + i2 \div 16,
                             (i2 % 16) * 16 + i3 \div 4,
                             (i3 % 4) * 64 + C10_B64Index(chars[4]) >>
                          \o rest

\* The request of every call that has sent one carries the header
\* Authorization: "Basic " and the client's token, and the token is the
\* base64 text of "key_id:key_secret".
C10_RequestsCarryToken ==
    /\ C10_B64Decode(credentials)
          = Utf8Encode(key_id) \o << 58 >> \o Utf8Encode(key_secret)
    /\ \A c \in Callers :
          dispatches[c] > 0
              => /\ DOMAIN request[c].headers = {"Authorization"}
                 /\ request[c].headers.Authorization = Basic \o credentials
                 /\ request[c].method = method[c]

\* C10: every request sent carries Authorization: Basic <token>, the
\* token being the one derived from (key_id, key_secret), and the token
\* and the keys never change.
C10_EveryRequestAuthorized ==
    /\ []C10_RequestsCarryToken
    /\ [][/\ credentials' = credentials
          /\ key_id' = key_id
          /\ key_secret' = key_secret]_vars

\* A post and a delete are in flight: both carry the token of the pair ("id", "s"), which is "aWQ6cw==".
C10_Witness ==
    /\ key_id = << "i", "d" >>
    /\ credentials = << "a", "W", "Q", "6", "c", "w", "=", "=" >>
    /\ \E c, d \in Callers :
          /\ pc[c] = "await" /\ method[c] = "POST"
          /\ pc[d] = "await" /\ method[d] = "DELETE"
          /\ request[c].headers.Authorization = Basic \o credentials
          /\ request[d].headers.Authorization = Basic \o credentials

\* C11: while the rate-limit state says that some requests remain, the
\* requests sent since that state was observed are no more than the
\* remaining count it holds: two callers never both pass the check on the
\* same state and both send when it allows one request.
C11_AdmittedWithinRemaining ==
    ratelimit.remaining > 0 => admitted <= ratelimit.remaining

GotSuccess(c) == received[c].kind = "Response" /\ IsSuccess(received[c])

\* C13: no failure is reported as success.  A call of get, post or delete
\* that has ended returned a payload or True only if its response had a
\* success status, and delete never returned False; a tool that has ended
\* gave its success result (the rendered payload or the confirmation) only
\* if the call got a success status, and otherwise gave an "Error: ..."
\* string or raised.
C13_NoFailureReportedAsSuccess ==
    \A c \in Callers :
        Done(c) =>
            /\ result[c].kind \in {"payload", "bool"} => GotSuccess(c)
            /\ result[c].kind = "bool" => result[c].success
            /\ ~GotSuccess(c) =>
                  /\ result[c].kind \notin {"none", "payload", "bool"}
                  /\ \/ output[c].kind = "raised"
                     \/ /\ output[c].kind = "str"
                        /\ output[c].text = "Error: "
                        /\ output[c].cause = result[c].kind
            /\ output[c].kind = "str" /\ output[c].cause = "" =>
                  /\ GotSuccess(c)
                  /\ \/ output[c].text = JsonDumps(result[c].payload)
                     \/ result[c].kind = "bool"

\* get_account_info was answered 404 and gave an "Error: ..." string, while
\* cancel_order was answered 404 and raised.
C13_Witness ==
    \E c, d \in Callers :
        /\ Done(c) /\ tool[c].name = "get_account_info"
        /\ received[c].status_code = 404
        /\ output[c] = ErrorString(result[c])
        /\ Done(d) /\ tool[d].name = "cancel_order"
        /\ received[d].status_code = 404
        /\ output[d].kind = "raised"

\* C14: the tool create_pie, called with either value its description
\* documents for dividend_destination ('CASH' or 'REINVEST'), goes on to
\* post the pie: its call sends a POST, or waits to send it.
C14_DocumentedValuesAccepted ==
    \A c \in Callers :
        /\ tool[c].name = "create_pie"
        /\ tool[c].arg \in DocumentedDividendDestinations
        => /\ request[c].method = "POST"
           /\ request[c].json = PieData(tool[c].arg)
           /\ dispatches[c] >= 1 \/ pc[c] \in Sleeping

\* The tool of c was called with a string that is not a value of the enum
\* of its parameter.
UnknownVariant(c) ==
    \/ tool[c].name = "place_limit_order" /\ tool[c].arg \notin TimeValidity
    \/ tool[c].name = "create_pie" /\ tool[c].arg \notin DividendDestination

C15_RetryAwaited ==
    \A c \in Callers :
        Done(c) /\ attempt[c] >= 1 =>
            /\ response[c].kind = "Response"
            /\ dispatches[c] = 1 + attempt[c]
            /\ result[c] = Complete(response[c], method[c], data[c])

C17_EveryCallTerminates ==
    \A c \in Callers :
        (pc[c] \notin {"idle", "done"})
            ~> (pc[c] = "done" /\ result[c].kind # "none")

\* A call was answered 429 with an exhausted quota, slept in its retry and
\* ended; the other call ended with a payload.
C17_Witness ==
    \E c, d \in Callers :
        /\ Done(c) /\ attempt[c] = 1 /\ wakeAt[c] > 1 /\ now >= wakeAt[c]
        /\ result[c].kind # "none"
        /\ Done(d) /\ result[d].kind = "payload"

\* C18: network I/O is not covered by exclusion.  While the request of one
\* caller is in flight, another caller that is not in a call, and whose
\* throttle check passes on the present state, can start a call and send
\* its request at once (as long as the behaviour has calls left).
C18_DispatchWhileInFlight ==
    \A c, d \in Callers :
        /\ c # d
        /\ pc[c] = "await"
        /\ pc[d] \in {"idle", "done"}
        /\ running = NoCaller
        /\ calls < MaxCalls
        /\ ~MustSleep(ratelimit, now)
        => ENABLED (Get(d) /\ pc'[d] = "await" /\ pc'[c] = "await")

\* The requests of both callers are in flight at once.
C18_Witness ==
    /\ \A c \in Callers : pc[c] = "await" /\ dispatches[c] = 1
    /\ admitted = 2

\* C20: a step in which the network attempt of a call ends in a transport
\* failure leaves the rate-limit state as it was, and the rate-limit state
\* changes only in a step in which a call receives a response.
C20_TransportFailureKeepsState ==
    [][/\ \A c \in Callers :
             /\ pc[c] = "await"
             /\ pc'[c] = "done"
             /\ result'[c] = TransportError
             => ratelimit' = ratelimit
       /\ ratelimit' # ratelimit =>
             \E c \in Callers :
                 /\ pc[c] = "await"
                 /\ received'[c].kind = "Response"
                 /\ observes'[c] = observes[c] + 1]_vars

\* The second call of a caller failed in the transport, no other caller
\* has made a call, and the rate-limit state is still the one the response
\* of the caller's first call set.
C20_Witness ==
    \E c \in Callers :
        /\ Done(c) /\ result[c] = TransportError /\ dispatches[c] = 1
        /\ calls = 2
        /\ \A d \in Callers \ {c} : pc[d] = "idle"
        /\ ratelimit.remaining = 1
        /\ ratelimit = from_headers(lastHeaders)

\* C21: while a caller is in its throttle wait (the time.sleep of
\* ensure_can_call), no other caller makes progress.  The waiting caller is
\* the one that holds the event loop, and every step taken from the start
\* of its wait until the wait ends leaves the rate-limit state and every
\* other caller as they were: no other request is sent and no other
\* response is observed.
C21_NoProgressDuringWait ==
    /\ [](\A c \in Callers : pc[c] \in Sleeping <=> running = c)
    /\ [][\A c \in Callers :
             pc[c] \in Sleeping =>
                 /\ ratelimit' = ratelimit
                 /\ lastHeaders' = lastHeaders
                 /\ admitted' = admitted \/ (pc'[c] = "await" /\ DispatchStep(c))
                 /\ \A d \in Callers \ {c} :
                       /\ ~DispatchStep(d)
                       /\ pc'[d] = pc[d]
                       /\ received'[d] = received[d]
                       /\ observes'[d] = observes[d]
                       /\ result'[d] = result[d]]_vars

\* A caller answered 429 with an exhausted quota is in the sleep of its
\* retry, a second has passed since the wait began, and the request of
\* the other caller is still in flight.
C21_Witness ==
    \E c, d \in Callers :
        /\ pc[c] = "sleep_retry" /\ running = c
        /\ wakeAt[c] = 3 /\ now = 2
        /\ throttled
        /\ pc[d] = "await" /\ dispatches[d] = 1
====
